---- MODULE Spec2Model ----
(***************************************************************************)
(* Supervisor / worker routing graph of the AI job assistant.              *)
(*                                                                         *)
(* One run of conversational_chat (app.py) drives the graph compiled by    *)
(* define_graph (agents.py): the supervisor node consults the routing LLM, *)
(* the conditional edge maps its `next` through conditional_map, a worker  *)
(* node (agent_node) appends one HumanMessage and control returns to the   *)
(* supervisor.  graph.stream executes one node per super-step and raises   *)
(* GraphRecursionError once recursion_limit super-steps were executed and  *)
(* the graph has not reached END.  An exception raised by a node, by the   *)
(* conditional edge or by the step limit leaves graph.stream and           *)
(* conversational_chat uncaught: the run is aborted.                       *)
(***************************************************************************)
EXTENDS Integers, Sequences, FiniteSets, TLC

VARIABLES
    llm_name,     \* LLM_NAME handed to define_graph
    api,          \* search.api: TRUE = Linkedin client, FALSE = None
    cv_file,      \* what tmp/cv.pdf holds: "readable" or "unreadable"
    input,        \* AgentState.input
    messages,     \* AgentState.messages
    next,         \* AgentState.next ("None" while the channel is empty)
    node,         \* node scheduled for the coming super-step
    step,         \* super-steps executed by graph.stream
    status,       \* "running", "finished", "aborted" or "no_graph"
    reason,       \* exception that aborted the run, "" otherwise
    results,      \* conversational_chat's local list `results`
    last,         \* record of the latest node execution (observation)
    decisions,    \* `next` values the conditional edge has read so far
    oracle_calls, \* supervisor_chain invocations so far
    worker_calls, \* agent_node invocations so far
    returned,     \* what conversational_chat returned: [set, value]
    history,      \* st.session_state['history']
    call,         \* a tool function under study and its arguments
    ret,          \* what that call did: [done, raised, value]
    disk_cv,      \* session whose upload tmp/cv.pdf holds (0: no file)
    sessions,     \* per browser session: position and messages of its run
    loop          \* graph.stream seen call by call: what is outstanding

\* the state of one run of conversational_chat
runVars == <<llm_name, api, cv_file, input, messages, next, node, step,
             status, reason, results, last, decisions, oracle_calls,
             worker_calls, returned, history>>

\* the state used when a tool function is studied on its own
toolVars == <<call, ret>>

\* the state used when several browser sessions are studied
sessVars == <<disk_cv, sessions>>

vars == <<llm_name, api, cv_file, input, messages, next, node, step, status,
          reason, results, last, decisions, oracle_calls, worker_calls,
          returned, history, call, ret, disk_cv, sessions, loop>>

(***************************************************************************)
(* Bounds                                                                  *)
(***************************************************************************)
\* recursion_limit handed to graph.stream (100 in app.py; small here)
RecursionLimit == 6
\* longest list of postings a search returns
MaxJobs == 2

(***************************************************************************)
(* Graph configuration (define_graph)                                      *)
(***************************************************************************)
members == {"Analyzer", "Generator", "Searcher"}

options == {"FINISH"} \cup members

END == "__end__"

\* values the LLM may put under `next`: the enum of function_def is a hint
\* to the LLM, nothing in the chain enforces it
DecisionValues == options \cup {"Unknown"}

\* variant: a lookup with a default, conditional_map.get(k, END)
conditional_map_default ==
    [k \in DecisionValues |-> IF k \in members THEN k ELSE END]

\* variant: two workers' entries exchanged
conditional_map_swapped ==
    [k \in options |->
        IF k = "FINISH" THEN END
        ELSE IF k = "Analyzer" THEN "Searcher"
        ELSE IF k = "Searcher" THEN "Analyzer"
        ELSE k]

\* variant: FINISH routed back to the supervisor instead of END
conditional_map_finish_loops ==
    [k \in options |-> IF k = "FINISH" THEN "supervisor" ELSE k]

conditional_map == [k \in options |-> IF k = "FINISH" THEN END ELSE k]

\* variant: a worker's edge leads back to the worker itself
worker_edge_self(member) == member

\* workflow.add_edge(member, "supervisor") for every member
worker_edge(member) == "supervisor"

\* variant: the graph is entered at a worker
entry_point_analyzer == "Analyzer"

\* workflow.set_entry_point("supervisor")
entry_point == "supervisor"

LlmNames == {"openai", "groq", "llama3"}

\* names LLM_NAME may hold: the providers in other letter cases and a name
\* no provider has
ProviderNames == LlmNames \cup {"OpenAI", "GROQ", "Llama3", "mistral"}

\* str.lower() on these names
lower(name) ==
    CASE name = "OpenAI" -> "openai"
      [] name = "GROQ" -> "groq"
      [] name = "Llama3" -> "llama3"
      [] OTHER -> name

\* load_llm: compares llm_name.lower(); ValueError for any other name
load_llm(name) ==
    IF lower(name) \in LlmNames THEN "llm" ELSE "ValueError"

\* routing_prompt assigns `prompt` for 'openai' and 'groq' only; for any
\* other name `return prompt` raises UnboundLocalError inside define_graph.
routing_prompt(name) ==
    IF name \in {"openai", "groq"} THEN "prompt" ELSE "UnboundLocalError"

\* Supervisor chain chosen by define_graph: function calling for 'openai',
\* tool calling followed by flatten_output for 'groq' and 'llama3'; any
\* other name leaves supervisor_chain unassigned.
supervisor_backend(name) ==
    IF name = "openai" THEN "functions"
    ELSE IF name \in {"groq", "llama3"} THEN "tools"
    ELSE "unassigned"

\* define_graph: "compiled", or the exception that leaves it.
define_graph(name) ==
    IF routing_prompt(name) = "UnboundLocalError" THEN "UnboundLocalError"
    ELSE IF supervisor_backend(name) = "unassigned" THEN "UnboundLocalError"
    ELSE "compiled"

(***************************************************************************)
(* Python values: a str is S(v), a dict is D(f) with f a function from its *)
(* keys to values, None is NoneValue.                                      *)
(***************************************************************************)
S(v) == [t |-> "str", s |-> v]

D(f) == [t |-> "dict", d |-> f]

NoneValue == [t |-> "none"]

EmptyDict == [k \in {} |-> NoneValue]

Dict1(k, v) == [x \in {k} |-> v]

Dict2(k1, v1, k2, v2) == [x \in {k1, k2} |-> IF x = k1 THEN v1 ELSE v2]

\* variant: update() without the pop, the wrapper stays in the dict
flatten_output_keep(data) ==
    IF "args" \in DOMAIN data /\ data["args"].t = "dict"
    THEN LET args_content == data["args"].d
         IN [k \in (DOMAIN data) \cup (DOMAIN args_content) |->
                IF k \in DOMAIN args_content THEN args_content[k] ELSE data[k]]
    ELSE data

\* variant: no normalisation, the parser output is passed on as it is
flatten_output_identity(data) == data

\* flatten_output: pops 'args' when present and a dict, then update()s the
\* remaining dict with its content (keys of args override the top level).
flatten_output(data) ==
    IF "args" \in DOMAIN data /\ data["args"].t = "dict"
    THEN LET args_content == data["args"].d
             rest == [k \in (DOMAIN data) \ {"args"} |-> data[k]]
         IN [k \in (DOMAIN rest) \cup (DOMAIN args_content) |->
                IF k \in DOMAIN args_content THEN args_content[k] ELSE rest[k]]
    ELSE data

\* The caller's dict after flatten_output(data): pop() and update() act on
\* the argument itself, and `return data` hands the same object back.
flatten_output_arg(data) == flatten_output(data)

(***************************************************************************)
(* Output of the routing LLM after the output parser.                      *)
(***************************************************************************)
Flat(v) == Dict1("next", S(v))

Nested(v) == Dict1("args", D(Flat(v)))

ToolCall(args) == Dict2("type", S("route"), "args", D(args))

\* JsonOutputFunctionsParser: the arguments of the forced `route` call
FunctionOutputs ==
    {D(Flat(v)) : v \in DecisionValues} \cup {D(EmptyDict)}

\* JsonOutputToolsParser(first_tool_only=True): None when the LLM made no
\* tool call, else the call with its arguments under 'args'
ToolOutputs ==
    {NoneValue}
    \cup {D(Nested(v)) : v \in DecisionValues}
    \cup {D(ToolCall(Flat(v))) : v \in DecisionValues}
    \cup {D(ToolCall(Nested(v))) : v \in DecisionValues}
    \cup {D(ToolCall(EmptyDict))}

RawOutputs(name) ==
    IF supervisor_backend(name) = "functions" THEN FunctionOutputs
    ELSE ToolOutputs

\* supervisor_chain: parser output, piped through flatten_output on the
\* tool-calling backend.  `'args' in None` raises TypeError.
supervisor_chain(name, raw) ==
    IF supervisor_backend(name) = "functions"
    THEN [raised |-> FALSE, exc |-> "", out |-> raw.d]
    ELSE IF raw.t = "dict"
         THEN [raised |-> FALSE, exc |-> "", out |-> flatten_output(raw.d)]
         ELSE [raised |-> TRUE, exc |-> "TypeError", out |-> EmptyDict]

\* The state the conditional edge reads: the node's update applied to the
\* `next` channel (LastValue); a key the output lacks leaves the channel.
UpdatedNext(out, cur) ==
    IF "next" \in DOMAIN out /\ out["next"].t = "str" THEN out["next"].s
    ELSE cur

\* variant: the supervisor's decision is also appended as a message
UpdatedMessages_echo(out, cur) ==
    cur \o <<[content |-> "routing", name |-> "supervisor"]>>

\* The `messages` channel after the supervisor's update: the reducer is
\* applied when the output has the key, the channel is left otherwise.
UpdatedMessages(out, cur) ==
    IF "messages" \in DOMAIN out THEN cur \o <<out["messages"]>> ELSE cur

(***************************************************************************)
(* Worker capabilities (tools.py, search.py, data_loader.py).  A Python    *)
(* call is modelled by [raised, value]: the exception flag and the result. *)
(***************************************************************************)
Returned(v) == [raised |-> FALSE, value |-> v]

Raised(v) == [raised |-> TRUE, value |-> v]

\* A posting of api.search_jobs is modelled by a number: n > 0 carries the
\* trackingUrn "...jobPosting:n", 0 has no usable trackingUrn.
PostingLists == UNION {[1..n -> 0..MaxJobs] : n \in 0..MaxJobs}

\* api.search_jobs either raises or returns a list of postings
SearchOutcomes ==
    {Raised(<<>>)} \cup {Returned(p) : p \in PostingLists}

HasUrn(posting) == posting > 0

\* variant: no client gives [] like a failing search does
get_job_ids_soft(apiv, search) ==
    IF ~apiv THEN Returned(<<>>)
    ELSE IF search.raised THEN Returned(<<>>)
    ELSE Returned(SelectSeq(search.value, HasUrn))

\* get_job_ids: raises when api is None; a failing search gives []
get_job_ids(apiv, search) ==
    IF ~apiv THEN Raised(<<>>)
    ELSE IF search.raised THEN Returned(<<>>)
    ELSE Returned(SelectSeq(search.value, HasUrn))

\* Field values of a job record: 0 stands for 'N/A', n > 0 for the value
\* LinkedIn returns for job n.
_get_empty_job_dict ==
    [company_name |-> 0, company_url |-> 0, job_desc_text |-> 0,
     work_remote_allowed |-> FALSE, job_title |-> 0,
     company_apply_url |-> 0, job_location |-> 0]

JobDataDict(job_id) ==
    [company_name |-> job_id, company_url |-> job_id,
     job_desc_text |-> job_id, work_remote_allowed |-> TRUE,
     job_title |-> job_id, company_apply_url |-> job_id,
     job_location |-> job_id]

\* get_job_details: placeholder when api is None or api.get_job raises
\* (job_id \in failing), the extracted record otherwise
get_job_details(apiv, job_id, failing) ==
    IF ~apiv THEN _get_empty_job_dict
    ELSE IF job_id \in failing THEN _get_empty_job_dict
    ELSE JobDataDict(job_id)

RECURSIVE FetchLoop(_, _, _, _)
FetchLoop(apiv, job_ids, failing, acc) ==
    IF job_ids = <<>> THEN acc
    ELSE FetchLoop(apiv, Tail(job_ids), failing,
                   Append(acc, get_job_details(apiv, Head(job_ids), failing)))

\* variant: the loop is left after the first fetch that fails
fetch_all_jobs_stop(apiv, job_ids, failing) ==
    LET bad == {i \in 1..Len(job_ids) : ~apiv \/ job_ids[i] \in failing}
    IN IF bad = {} THEN FetchLoop(apiv, job_ids, failing, <<>>)
       ELSE LET first == CHOOSE i \in bad : \A j \in bad : i <= j
            IN FetchLoop(apiv, SubSeq(job_ids, 1, first), failing, <<>>)

\* fetch_all_jobs: one get_job_details per id, appended in order
fetch_all_jobs(apiv, job_ids, failing) == FetchLoop(apiv, job_ids, failing, <<>>)

job_threads(apiv, job_ids, failing) == fetch_all_jobs(apiv, job_ids, failing)

\* job_pipeline: get_job_ids, then job_threads; nothing is caught here
job_pipeline(apiv, search, failing) ==
    LET job_ids == get_job_ids(apiv, search)
    IN IF job_ids.raised THEN Raised(<<>>)
       ELSE Returned(job_threads(apiv, job_ids.value, failing))

CvText == "Experienced engineer..."

\* load_cv: the text of the PDF; every exception is caught and gives ""
load_cv(file) ==
    IF file = "readable" THEN Returned(CvText) ELSE Returned("")

\* extract_cv: {'content': text}, or the error marker if load_cv raised
extract_cv(file) ==
    LET text == load_cv(file)
    IN IF text.raised THEN "Error: Could not extract CV content"
       ELSE text.value

generate_letter_for_specific_job ==
    "Cover letter generation initiated with CV and job details."

(***************************************************************************)
(* Worker nodes (create_agent, agent_node)                                 *)
(***************************************************************************)
HumanMessage(content, name) == [content |-> content, name |-> name]

\* variant: the executor catches the tool's exception and words it
agent_invoke_catch(name, called, apiv, file, search, failing) ==
    IF called /\ name = "Searcher" /\ job_pipeline(apiv, search, failing).raised
    THEN [raised |-> FALSE, value |-> "Search failed", tool |-> "raised"]
    ELSE IF ~called
    THEN [raised |-> FALSE, value |-> "Direct answer", tool |-> "not called"]
    ELSE IF name = "Searcher"
    THEN [raised |-> FALSE,
          value |-> IF job_pipeline(apiv, search, failing).value = <<>>
                    THEN "No jobs found" ELSE "Job listings",
          tool |-> IF job_pipeline(apiv, search, failing).value = <<>>
                   THEN "returned empty" ELSE "returned listings"]
    ELSE [raised |-> FALSE,
          value |-> IF name = "Analyzer" THEN extract_cv(file)
                    ELSE generate_letter_for_specific_job,
          tool |-> "returned"]

\* agent.invoke(state): the AgentExecutor's LLM either answers directly
\* (called = FALSE) or calls the worker's tool and words its result; an
\* exception of the tool leaves the executor.  [raised, value, tool]: value
\* is result["output"], tool what the tool did.
agent_invoke(name, called, apiv, file, search, failing) ==
    IF ~called
    THEN [raised |-> FALSE, value |-> "Direct answer", tool |-> "not called"]
    ELSE CASE name = "Searcher" ->
                LET jobs == job_pipeline(apiv, search, failing)
                IN IF jobs.raised
                   THEN [raised |-> TRUE, value |-> "", tool |-> "raised"]
                   ELSE IF jobs.value = <<>>
                   THEN [raised |-> FALSE, value |-> "No jobs found",
                         tool |-> "returned empty"]
                   ELSE [raised |-> FALSE, value |-> "Job listings",
                         tool |-> "returned listings"]
           [] name = "Analyzer" ->
                [raised |-> FALSE, value |-> extract_cv(file),
                 tool |-> "returned"]
           [] name = "Generator" ->
                [raised |-> FALSE, value |-> generate_letter_for_specific_job,
                 tool |-> "returned"]

\* variant: a degraded or failed result is tried once more
invocations_retry(result) ==
    IF result.raised \/ result.tool = "returned empty" THEN 2 ELSE 1

\* agent_node: `result = agent.invoke(state)`, once, outside any loop or
\* try block
invocations(result) == 1

\* variant: the message is built without name=name
agent_node_anonymous(result, name) == <<HumanMessage(result.value, "None")>>

\* variant: the update also repeats the message
agent_node_twice(result, name) ==
    <<HumanMessage(result.value, name), HumanMessage(result.value, name)>>

\* agent_node: the state update {"messages": [HumanMessage(output, name)]}
agent_node(result, name) == <<HumanMessage(result.value, name)>>

\* variant: a message already in the list is not added again
operator_add_once(old, update) ==
    IF \E i \in 1..Len(old) : <<old[i]>> = update THEN old ELSE old \o update

\* variant: no reducer, the update overwrites the channel
operator_replace(old, update) == update

\* variant: operands of the reducer swapped
operator_prepend(old, update) == update \o old

\* reducer of AgentState.messages (operator.add)
operator_add(old, update) == old \o update

(***************************************************************************)
(* conversational_chat: the body of the `for s in graph.stream(...)` loop  *)
(***************************************************************************)
AgentResponse(m) ==
    [agent |-> IF m.name = "None" THEN "System" ELSE m.name,
     content |-> m.content]

RECURSIVE StreamMessages(_, _)
StreamMessages(acc, msgs) ==
    IF msgs = <<>> THEN acc
    ELSE StreamMessages(Append(acc, AgentResponse(Head(msgs))), Tail(msgs))

(***************************************************************************)
(* The run                                                                 *)
(***************************************************************************)
Query == "Extract and summarize my CV"

\* variant: a node is handed the latest message only
node_input_latest(state_messages) ==
    <<state_messages[Len(state_messages)]>>

\* what a node reads of the state's messages: agent.invoke(state) and the
\* supervisor's prompt fill MessagesPlaceholder("messages") with the list
node_input(state_messages) == state_messages

NoNode == [node |-> "none", raw |-> NoneValue, out |-> EmptyDict,
           tool |-> "", raised |-> FALSE, input |-> <<>>]

\* conversational_chat has not returned (still streaming, or left by an
\* exception)
NotReturned == [set |-> FALSE, value |-> <<>>]

\* conversational_chat after the stream ended: the (query, results) pair
\* goes to the session history and ' '.join(results) is returned; the
\* joined string is modelled by the sequence of its pieces
ChatReturn(res) == [set |-> TRUE, value |-> res]

\* variant: the limit is noticed two super-steps late
LimitReachedLate(n) == n >= RecursionLimit + 2

\* variant: off by one, n > recursion_limit
LimitReachedOffByOne(n) == n > RecursionLimit

\* recursion_limit super-steps were executed
LimitReached(n) == n >= RecursionLimit

\* nothing is studied apart from the run
NoCall == [fn |-> "none"]

NoReturn == [done |-> FALSE, raised |-> FALSE, value |-> <<>>]

ToolIdle == call = NoCall /\ ret = NoReturn

SessIdle == disk_cv = 0 /\ sessions = <<>>

LoopIdle == loop = [on |-> FALSE]

Init ==
    /\ ToolIdle
    /\ SessIdle
    /\ LoopIdle
    /\ llm_name \in LlmNames
    /\ api \in BOOLEAN
    /\ cv_file \in {"readable", "unreadable"}
    /\ input = "None"
    /\ messages = <<HumanMessage(Query, "None")>>
    /\ next = "None"
    /\ node = entry_point
    /\ step = 0
    /\ status = IF define_graph(llm_name) = "compiled" THEN "running"
                ELSE "no_graph"
    /\ reason = ""
    /\ results = <<>>
    /\ last = NoNode
    /\ decisions = <<>>
    /\ oracle_calls = 0
    /\ worker_calls = 0
    /\ returned = NotReturned
    /\ history = <<>>

\* variant: every failure is re-raised as a plain Exception
Abort_generic(exc) ==
    /\ status' = "aborted"
    /\ reason' = "Exception"
    /\ UNCHANGED <<returned, history>>

\* An exception leaves graph.stream and conversational_chat: the lines
\* after the loop are not reached
Abort(exc) ==
    /\ status' = "aborted"
    /\ reason' = exc
    /\ UNCHANGED <<returned, history>>

\* Super-step of the supervisor node: supervisor_chain, the update of the
\* state, then the conditional edge conditional_map[x["next"]].
Supervisor ==
    /\ status = "running"
    /\ node = "supervisor"
    /\ ~LimitReached(step)
    /\ \E raw \in RawOutputs(llm_name) :
         LET chain == supervisor_chain(llm_name, raw)
             nx == UpdatedNext(chain.out, next)
         IN /\ oracle_calls' = oracle_calls + 1
            /\ messages' = IF chain.raised THEN messages
                           ELSE UpdatedMessages(chain.out, messages)
            /\ last' = [node |-> "supervisor", raw |-> raw, out |-> chain.out,
                        tool |-> "", raised |-> chain.raised,
                        input |-> node_input(messages)]
            /\ IF chain.raised
               THEN /\ Abort(chain.exc)
                    /\ UNCHANGED <<next, node, step, decisions>>
               ELSE /\ next' = nx
                    /\ decisions' = Append(decisions, nx)
                    /\ IF nx \in DOMAIN conditional_map
                       THEN /\ node' = conditional_map[nx]
                            /\ step' = step + 1
                            /\ reason' = ""
                            /\ IF conditional_map[nx] = END
                               THEN /\ status' = "finished"
                                    /\ returned' = ChatReturn(results)
                                    /\ history' =
                                         Append(history, <<Query, results>>)
                               ELSE /\ status' = "running"
                                    /\ UNCHANGED <<returned, history>>
                       ELSE /\ Abort("KeyError")
                            /\ UNCHANGED <<node, step>>
    /\ UNCHANGED <<llm_name, api, cv_file, input, results, worker_calls>>
    /\ UNCHANGED <<toolVars, sessVars, loop>>

\* What LinkedIn answers during the step; only the Searcher's tool asks
SearchInputs(name) ==
    IF name = "Searcher" THEN SearchOutcomes ELSE {Raised(<<>>)}

\* job ids for which api.get_job raises during the step
FailingInputs(name) ==
    IF name = "Searcher" THEN SUBSET (1..MaxJobs) ELSE {{}}

\* Super-step of a worker node: agent_node, the reducer, the edge back to
\* the supervisor, and the loop body of conversational_chat on the update.
Worker(name) ==
    /\ status = "running"
    /\ node = name
    /\ ~LimitReached(step)
    /\ \E called \in BOOLEAN, search \in SearchInputs(name),
          failing \in FailingInputs(name) :
         LET result == agent_invoke(name, called, api, cv_file, search, failing)
             update == agent_node(result, name)
         IN /\ worker_calls' = worker_calls + invocations(result)
            /\ last' = [node |-> name, raw |-> NoneValue, out |-> EmptyDict,
                        tool |-> result.tool, raised |-> result.raised,
                        input |-> node_input(messages)]
            /\ IF result.raised
               THEN /\ Abort("Exception")
                    /\ UNCHANGED <<messages, node, step, results>>
               ELSE /\ messages' = operator_add(messages, update)
                    /\ results' = StreamMessages(results, update)
                    /\ node' = worker_edge(name)
                    /\ step' = step + 1
                    /\ UNCHANGED <<status, reason, returned, history>>
    /\ UNCHANGED <<llm_name, api, cv_file, input, next, decisions,
                   oracle_calls>>
    /\ UNCHANGED <<toolVars, sessVars, loop>>

Analyzer == Worker("Analyzer")

Searcher == Worker("Searcher")

Generator == Worker("Generator")

\* graph.stream with {"recursion_limit": n}: a node is still scheduled
\* after n super-steps, GraphRecursionError is raised
RecursionLimitHit ==
    /\ status = "running"
    /\ LimitReached(step)
    /\ Abort("GraphRecursionError")
    /\ UNCHANGED <<llm_name, api, cv_file, input, messages, next, node, step,
                   results, last, decisions, oracle_calls, worker_calls>>
    /\ UNCHANGED <<toolVars, sessVars, loop>>

Next ==
    \/ Supervisor
    \/ Analyzer
    \/ Searcher
    \/ Generator
    \/ RecursionLimitHit

Spec == Init /\ [][Next]_vars

\* The run is driven by one thread that executes the next super-step as
\* long as there is one.
FairSpec == Spec /\ WF_vars(Next)

(***************************************************************************)
(* The tool functions on their own: the arguments are drawn at the start,  *)
(* one step applies the function.                                          *)
(***************************************************************************)
\* no run of conversational_chat is under way
RunIdle ==
    /\ llm_name = "openai"
    /\ cv_file = "readable"
    /\ input = "None"
    /\ messages = <<>>
    /\ next = "None"
    /\ node = "none"
    /\ step = 0
    /\ status = "idle"
    /\ reason = ""
    /\ results = <<>>
    /\ last = NoNode
    /\ decisions = <<>>
    /\ oracle_calls = 0
    /\ worker_calls = 0
    /\ returned = NotReturned
    /\ history = <<>>

JobPipelineCalls ==
    {[fn |-> "job_pipeline", search |-> so, failing |-> f] :
        so \in SearchOutcomes, f \in SUBSET (1..MaxJobs)}

\* dicts handed to flatten_output: the parser's outputs, flat dicts, a
\* top-level `next` beside the wrapper, and an 'args' that is no dict
FlattenInputs ==
    {raw.d : raw \in {x \in ToolOutputs : x.t = "dict"}}
    \cup {Flat(v) : v \in DecisionValues}
    \cup {Dict2("next", S("FINISH"), "args", D(Flat(v))) : v \in DecisionValues}
    \cup {EmptyDict, Dict1("args", S("Searcher"))}

FlattenCalls ==
    {[fn |-> "flatten_output", arg |-> d, data |-> d, times |-> 0] :
        d \in FlattenInputs}

\* lists of job ids handed to fetch_all_jobs
JobIdLists == UNION {[1..n -> 1..MaxJobs] : n \in 0..MaxJobs}

FetchCalls ==
    {[fn |-> "fetch_all_jobs", job_ids |-> ids, failing |-> f] :
        ids \in JobIdLists, f \in SUBSET (1..MaxJobs)}

DefineGraphCalls ==
    {[fn |-> "define_graph", name |-> n] : n \in ProviderNames}

ToolInit ==
    /\ RunIdle
    /\ api \in BOOLEAN
    /\ SessIdle
    /\ LoopIdle
    /\ call \in JobPipelineCalls \cup FlattenCalls \cup FetchCalls
                \cup DefineGraphCalls
    /\ ret = NoReturn

\* job_pipeline(...) is called with the module's `api`
CallJobPipeline ==
    /\ call.fn = "job_pipeline"
    /\ ~ret.done
    /\ LET r == job_pipeline(api, call.search, call.failing)
       IN ret' = [done |-> TRUE, raised |-> r.raised, value |-> r.value]
    /\ UNCHANGED <<runVars, call, sessVars, loop>>

\* flatten_output(data) on the caller's dict `data`, and once more on
\* what it returned; `first` keeps the result of the first call
CallFlattenOutput ==
    /\ call.fn = "flatten_output"
    /\ call.times < 2
    /\ LET r == flatten_output(call.data)
       IN /\ ret' = [done |-> TRUE, raised |-> FALSE, value |-> r,
                     first |-> IF ret.done THEN ret.first ELSE r]
          /\ call' = [call EXCEPT !.data = flatten_output_arg(call.data),
                                  !.times = @ + 1]
    /\ UNCHANGED <<runVars, sessVars, loop>>

\* asyncio.run(job_threads(job_ids)) -> fetch_all_jobs(job_ids)
CallFetchAllJobs ==
    /\ call.fn = "fetch_all_jobs"
    /\ ~ret.done
    /\ ret' = [done |-> TRUE, raised |-> FALSE,
               value |-> fetch_all_jobs(api, call.job_ids, call.failing)]
    /\ UNCHANGED <<runVars, call, sessVars, loop>>

\* app.py start-up: llm = load_llm(llm_name), then
\* graph = define_graph(llm, llm_name)
CallDefineGraph ==
    /\ call.fn = "define_graph"
    /\ ~ret.done
    /\ ret' = IF load_llm(call.name) = "ValueError"
              THEN [done |-> TRUE, raised |-> TRUE, value |-> "ValueError"]
              ELSE [done |-> TRUE,
                    raised |-> define_graph(call.name) # "compiled",
                    value |-> define_graph(call.name)]
    /\ UNCHANGED <<runVars, call, sessVars, loop>>

ToolNext ==
    \/ CallJobPipeline
    \/ CallFlattenOutput
    \/ CallFetchAllJobs
    \/ CallDefineGraph

ToolSpec == ToolInit /\ [][ToolNext]_vars

(***************************************************************************)
(* Several browser sessions of the one hosting process.  Each session runs *)
(* the script on its own thread with its own graph state; the upload is    *)
(* written to the one path tmp/cv.pdf.                                     *)
(***************************************************************************)
Sessions == {1, 2}

MaxSessionSteps == 2

\* a worker's Turn in a session, with the upload its tool read (0: none)
SessionTurn(name, doc) == [name |-> name, doc |-> doc]

\* what `tmp/cv.pdf` holds when load_cv opens it for a session
cv_path(s, disk) == disk

SessionInit ==
    /\ RunIdle
    /\ api = TRUE
    /\ ToolIdle
    /\ LoopIdle
    /\ disk_cv = 0
    /\ sessions = [s \in Sessions |-> [pc |-> "idle", messages |-> <<>>]]

\* one script run of session s on a submitted query: the upload is saved
\* as tmp/cv.pdf, then conversational_chat seeds a fresh graph state
ScriptRun(s) ==
    /\ sessions[s].pc = "idle"
    /\ disk_cv' = s
    /\ sessions' = [sessions EXCEPT ![s] =
            [pc |-> "supervisor",
             messages |-> <<SessionTurn("None", 0)>>]]
    /\ UNCHANGED <<runVars, toolVars, loop>>

\* the supervisor node of session s reads that session's messages only
SessionSupervisor(s) ==
    /\ sessions[s].pc = "supervisor"
    /\ \E d \in options :
          /\ Len(sessions[s].messages) > MaxSessionSteps => d = "FINISH"
          /\ sessions' = [sessions EXCEPT ![s].pc =
                IF conditional_map[d] = END THEN "idle" ELSE d]
    /\ UNCHANGED <<runVars, toolVars, disk_cv, loop>>

\* a worker node of session s; the Analyzer's extract_cv opens tmp/cv.pdf
SessionWorker(s) ==
    /\ sessions[s].pc \in members
    /\ LET name == sessions[s].pc
           doc  == IF name = "Analyzer" THEN cv_path(s, disk_cv) ELSE 0
       IN sessions' = [sessions EXCEPT ![s] =
            [pc |-> "supervisor",
             messages |-> operator_add(sessions[s].messages,
                                       <<SessionTurn(name, doc)>>)]]
    /\ UNCHANGED <<runVars, toolVars, disk_cv, loop>>

SessionNext ==
    \E s \in Sessions :
        \/ ScriptRun(s)
        \/ SessionSupervisor(s)
        \/ SessionWorker(s)

SessionSpec == SessionInit /\ [][SessionNext]_vars

(***************************************************************************)
(* graph.stream seen call by call: a super-step starts the scheduled       *)
(* nodes, a node's return schedules its successors, and the Searcher's     *)
(* tool makes its LinkedIn calls while the node is running.                *)
(***************************************************************************)
\* variant: the supervisor's edge fans out to every worker
Successors_fanout(n, d) ==
    IF n = "supervisor"
    THEN IF conditional_map[d] = END THEN {} ELSE members
    ELSE {"supervisor"}

\* the nodes an edge of the graph schedules when node n has returned, d
\* being the value of `next`
Successors(n, d) ==
    IF n = "supervisor"
    THEN {conditional_map[d]} \ {END}
    ELSE {"supervisor"}

\* `await get_job_details(job_id)` inside the for loop: the next fetch
\* starts when none is outstanding
MayFetch(outstanding) == outstanding = {}

SearchJobsCall == [op |-> "search_jobs", k |-> 0]

GetJobCall(k) == [op |-> "get_job", k |-> k]

LoopInit ==
    /\ RunIdle
    /\ api = TRUE
    /\ ToolIdle
    /\ SessIdle
    /\ loop = [on |-> TRUE, scheduled |-> {entry_point}, in_flight |-> {},
               phase |-> "none", api_calls |-> {}, todo |-> <<>>,
               started |-> 0, steps |-> 0, merged |-> 0]

\* a super-step starts every scheduled node, once the previous one is over
StepBegin ==
    /\ loop.on
    /\ loop.in_flight = {}
    /\ loop.scheduled # {}
    /\ ~LimitReached(loop.steps)
    /\ loop' = [loop EXCEPT !.in_flight = loop.scheduled,
                            !.scheduled = {},
                            !.steps = @ + 1,
                            !.phase = IF "Searcher" \in loop.scheduled
                                      THEN "search" ELSE "none"]
    /\ UNCHANGED <<runVars, toolVars, sessVars>>

\* recursion_limit super-steps are used up: the stream ends
StepLimit ==
    /\ loop.on
    /\ loop.in_flight = {}
    /\ loop.scheduled # {}
    /\ LimitReached(loop.steps)
    /\ loop' = [loop EXCEPT !.scheduled = {}]
    /\ UNCHANGED <<runVars, toolVars, sessVars>>

\* the supervisor chain returns a decision; its conditional edge schedules
OracleReturn ==
    /\ loop.on
    /\ "supervisor" \in loop.in_flight
    /\ \E d \in options :
          loop' = [loop EXCEPT
                     !.in_flight = @ \ {"supervisor"},
                     !.scheduled = @ \cup Successors("supervisor", d)]
    /\ UNCHANGED <<runVars, toolVars, sessVars>>

\* job_pipeline -> get_job_ids: api.search_jobs is called
SearchCall ==
    /\ loop.on
    /\ "Searcher" \in loop.in_flight
    /\ loop.phase = "search"
    /\ loop' = [loop EXCEPT !.api_calls = @ \cup {SearchJobsCall},
                            !.phase = "searching"]
    /\ UNCHANGED <<runVars, toolVars, sessVars>>

\* api.search_jobs has answered: fetch_all_jobs gets the ids
SearchReturn ==
    /\ loop.on
    /\ SearchJobsCall \in loop.api_calls
    /\ \E so \in SearchOutcomes :
          loop' = [loop EXCEPT !.api_calls = @ \ {SearchJobsCall},
                               !.todo = get_job_ids(api, so).value,
                               !.started = 0,
                               !.phase = "fetch"]
    /\ UNCHANGED <<runVars, toolVars, sessVars>>

\* fetch_all_jobs: the loop reaches `await get_job_details(job_id)`
FetchCall ==
    /\ loop.on
    /\ loop.phase = "fetch"
    /\ loop.todo # <<>>
    /\ MayFetch(loop.api_calls)
    /\ loop' = [loop EXCEPT !.api_calls = @ \cup {GetJobCall(loop.started + 1)},
                            !.started = @ + 1,
                            !.todo = Tail(@)]
    /\ UNCHANGED <<runVars, toolVars, sessVars>>

\* api.get_job has answered (or failed: the placeholder is appended)
FetchReturn ==
    /\ loop.on
    /\ \E c \in loop.api_calls :
          /\ c.op = "get_job"
          /\ loop' = [loop EXCEPT !.api_calls = @ \ {c}]
    /\ UNCHANGED <<runVars, toolVars, sessVars>>

\* a worker node returns its Turn, which is merged; its edge schedules
WorkerReturn(w) ==
    /\ loop.on
    /\ w \in loop.in_flight
    /\ w = "Searcher" =>
          /\ loop.phase = "fetch"
          /\ loop.todo = <<>>
          /\ loop.api_calls = {}
    /\ loop' = [loop EXCEPT !.in_flight = @ \ {w},
                            !.scheduled = @ \cup Successors(w, "None"),
                            !.merged = @ + 1,
                            !.phase = IF w = "Searcher" THEN "none" ELSE @]
    /\ UNCHANGED <<runVars, toolVars, sessVars>>

LoopNext ==
    \/ StepBegin
    \/ StepLimit
    \/ OracleReturn
    \/ SearchCall
    \/ SearchReturn
    \/ FetchCall
    \/ FetchReturn
    \/ \E w \in members : WorkerReturn(w)

LoopSpec == LoopInit /\ [][LoopNext]_vars

(***************************************************************************)
(* Properties                                                              *)
(***************************************************************************)
Terminal == {"finished", "aborted"}

IsPrefix(a, b) == Len(a) <= Len(b) /\ SubSeq(b, 1, Len(a)) = a

StepLimitReason == "GraphRecursionError"

InvalidDecisionReason == "KeyError"

CapabilityFailureReason == "Exception"

LastDecision == IF decisions = <<>> THEN "None" ELSE decisions[Len(decisions)]

\* C1 (termination): a run never executes more than recursion_limit nodes
\* (oracle consultations and worker invocations together), and every run
\* that was started ends finished or aborted, whatever the oracle answers.
Termination ==
    /\ [](step <= RecursionLimit)
    /\ [](oracle_calls + worker_calls <= RecursionLimit)
    /\ (status = "running") ~> (status \in Terminal)

\* the oracle never said FINISH, only valid decisions, and the run ended
NeverFinishRunEnded ==
    /\ status = "aborted"
    /\ reason = StepLimitReason
    /\ Len(decisions) >= 2
    /\ \A i \in 1..Len(decisions) : decisions[i] \in members

\* the supervisor's latest output carries a `next` outside the options
InvalidDecision ==
    /\ last.node = "supervisor"
    /\ ~last.raised
    /\ "next" \in DOMAIN last.out
    /\ last.out["next"].s \notin options

\* C2 (decision validation): after an oracle output whose normalized
\* `next` is outside {Analyzer, Searcher, Generator, FINISH} the run is
\* aborted with the invalid-decision reason; it is not finished and no
\* worker is scheduled.
DecisionValidation ==
    InvalidDecision =>
        /\ status = "aborted"
        /\ reason = InvalidDecisionReason
        /\ node \notin members

UnknownDecisionAfterWork ==
    /\ InvalidDecision
    /\ status = "aborted"
    /\ worker_calls >= 1

\* C3 (history monotonicity): every step leaves the old `messages` a
\* prefix of the new one.
HistoryMonotone == [][IsPrefix(messages, messages')]_vars

ThreeTurnsAccumulated ==
    /\ Len(messages) = 3
    /\ oracle_calls >= 3

\* C4 (adapter frame): a worker invocation that returns appends exactly
\* one message, attributed to that worker, and changes neither `next` nor
\* `input`; one that raises changes no field of the state.
AdapterFrame ==
    [][worker_calls' = worker_calls + 1 =>
         /\ next' = next
         /\ input' = input
         /\ IF last'.raised
            THEN messages' = messages
            ELSE /\ Len(messages') = Len(messages) + 1
                 /\ IsPrefix(messages, messages')
                 /\ messages'[Len(messages')].name = last'.node]_vars

WorkerReturned ==
    /\ last.node \in members
    /\ ~last.raised
    /\ next = last.node
    /\ Len(messages) = 2
    /\ messages[2].name = last.node

\* C5 (fail-soft versus fatal): a Searcher step whose job_pipeline call
\* returns [] appends one Searcher message and hands over to the
\* supervisor with the run still running; one whose job_pipeline call
\* raises aborts the run.
FailSoftVersusFatal ==
    [][(worker_calls' = worker_calls + 1 /\ last'.node = "Searcher") =>
         /\ last'.tool = "returned empty" =>
               /\ Len(messages') = Len(messages) + 1
               /\ messages'[Len(messages')].name = "Searcher"
               /\ status' = "running"
               /\ node' = "supervisor"
         /\ last'.tool = "raised" =>
               /\ status' = "aborted"
               /\ reason' = CapabilityFailureReason
               /\ messages' = messages]_vars

SearcherRaised ==
    /\ last.node = "Searcher"
    /\ last.tool = "raised"
    /\ status = "aborted"

\* C6 as stated (step ceiling counts worker invocations): a run aborted by
\* the step limit has made exactly recursion_limit worker invocations.
StepCeilingCountsWorkers ==
    (status = "aborted" /\ reason = StepLimitReason) =>
        worker_calls = RecursionLimit

\* C6 amended: a run aborted by the step limit has executed exactly
\* recursion_limit nodes, oracle consultations and worker invocations
\* counted alike, which is recursion_limit \div 2 worker invocations.
StepCeilingCountsNodes ==
    (status = "aborted" /\ reason = StepLimitReason) =>
        /\ oracle_calls + worker_calls = RecursionLimit
        /\ worker_calls = RecursionLimit \div 2
        /\ worker_calls < RecursionLimit

OnlySearcherUntilLimit ==
    /\ status = "aborted"
    /\ reason = StepLimitReason
    /\ Len(messages) = 1 + RecursionLimit \div 2
    /\ \A i \in 2..Len(messages) : messages[i].name = "Searcher"

\* C7 (scenario A): a run whose decisions were [Analyzer, FINISH] is
\* finished with messages = [user message, one Analyzer message holding
\* the worker's output].
ScenarioA ==
    (status = "finished" /\ decisions = <<"Analyzer", "FINISH">>) =>
        /\ Len(messages) = 2
        /\ messages[1] = HumanMessage(Query, "None")
        /\ messages[2].name = "Analyzer"
        /\ messages[2].content \in {extract_cv(cv_file), "Direct answer"}
        /\ results = <<AgentResponse(messages[2])>>

ScenarioAReached ==
    /\ status = "finished"
    /\ decisions = <<"Analyzer", "FINISH">>
    /\ messages[2].content = CvText

\* the parser output has the shape {'args': {'next': v}, ...}
NestedNext(raw) ==
    /\ raw.t = "dict"
    /\ "args" \in DOMAIN raw.d
    /\ raw.d["args"].t = "dict"
    /\ "next" \in DOMAIN raw.d["args"].d

\* C8 (normalization): on the tool-calling backend an oracle output that
\* carries v under args.next leaves flatten_output with v as its top-level
\* `next`, the same as the flat {'next': v}; `next` becomes v and, v being
\* an option, the run is routed to conditional_map[v]; it is not aborted
\* by that decision (only the step limit can still end it).
Normalization ==
    (last.node = "supervisor" /\ supervisor_backend(llm_name) = "tools"
        /\ NestedNext(last.raw)) =>
        LET v == last.raw.d["args"].d["next"]
        IN /\ "next" \in DOMAIN last.out
           /\ last.out["next"] = v
           /\ last.out["next"] = flatten_output(Flat(v.s))["next"]
           /\ next = v.s
           /\ v.s \in options =>
                 /\ status = "aborted" => reason = StepLimitReason
                 /\ node = conditional_map[v.s]

NestedSearcherRouted ==
    /\ last.node = "supervisor"
    /\ last.raw = D(Nested("Searcher"))
    /\ node = "Searcher"
    /\ status = "running"

\* C9 (closed decision set): whenever `next` is set it is one of Analyzer,
\* Searcher, Generator, FINISH.
ClosedDecisionSet == next # "None" => next \in options

RunState ==
    <<messages, next, node, step, status, reason, results, oracle_calls,
      worker_calls>>

\* C10 (terminal states are absorbing): once the conditional edge has read
\* FINISH the run is finished, and from a finished or aborted run no step
\* changes the state, consults the oracle or invokes a worker.
TerminalAbsorbing ==
    /\ [](LastDecision = "FINISH" => status = "finished" /\ node = END)
    /\ [][(status \in Terminal) => UNCHANGED RunState]_vars

FinishedAfterWork ==
    /\ status = "finished"
    /\ LastDecision = "FINISH"
    /\ worker_calls >= 1

\* C11 (no work lost on failure): when a run in which workers produced
\* Turns has ended, finished or aborted, conversational_chat has returned
\* a value holding every one of those Turns.
NoWorkLost ==
    (status \in Terminal /\ Len(messages) >= 2) =>
        /\ returned.set
        /\ Len(returned.value) = Len(messages) - 1
        /\ \A i \in 1..Len(returned.value) :
              returned.value[i] = AgentResponse(messages[i + 1])

\* the history as a function of what the run received: the seed, the
\* decisions read by the conditional edge and the workers' outputs
ReplayHistory ==
    <<HumanMessage(Query, "None")>>
    \o [i \in 1..Len(results) |-> HumanMessage(results[i].content, decisions[i])]

\* the exception as a function of what the run received last
ReplayReason ==
    IF last.raised
    THEN IF last.node = "supervisor" THEN "TypeError" ELSE "Exception"
    ELSE IF last.node = "supervisor" /\ LastDecision \notin options
    THEN "KeyError"
    ELSE "GraphRecursionError"

\* C13 (determinism): in every state of a run the history and the status
\* are determined by the seed Turn, the decisions and the worker outputs
\* received so far, so two runs that receive the same ones agree state by
\* state and end alike.
Determinism ==
    /\ Len(results) <= Len(decisions)
    /\ messages = ReplayHistory
    /\ status = "finished" <=> LastDecision = "FINISH"
    /\ status = "aborted" => reason = ReplayReason
    /\ status # "aborted" => reason = ""

TwoWorkersThenFinished ==
    /\ status = "finished"
    /\ Len(messages) = 3
    /\ messages[2].name # messages[3].name

\* the event that ended an aborted run, read off the latest node execution
AbortCause ==
    IF last.raised /\ last.node \in members THEN "capability failure"
    ELSE IF last.node = "supervisor"
            /\ (last.raised \/ LastDecision \notin options)
    THEN "invalid decision"
    ELSE "step limit reached"

\* what the exception that left the run says
ReasonClass(exc) ==
    IF exc = CapabilityFailureReason THEN "capability failure"
    ELSE IF exc \in {InvalidDecisionReason, "TypeError"} THEN "invalid decision"
    ELSE IF exc = StepLimitReason THEN "step limit reached"
    ELSE "none"

\* C14 (abort reasons are distinguishable): an aborted run carries one
\* exception, whose kind is one of capability failure, invalid decision
\* and step limit reached and is the kind of the event that ended the run;
\* the exceptions of the three kinds differ.
AbortReasonsDistinct ==
    /\ Cardinality({CapabilityFailureReason, InvalidDecisionReason,
                    StepLimitReason}) = 3
    /\ status = "aborted" => ReasonClass(reason) = AbortCause
    /\ status # "aborted" => reason = ""

AbortedByCapabilityAfterWork ==
    /\ status = "aborted"
    /\ reason = CapabilityFailureReason
    /\ Len(messages) >= 2

CvErrorMarker == "Error: Could not extract CV content"

\* C16 (document extraction marks failure): an Analyzer step whose
\* extract_cv call could not read the document yields the error marker as
\* content, not an unmarked result.
ExtractionMarksFailure ==
    (last.node = "Analyzer" /\ last.tool = "returned"
        /\ cv_file = "unreadable") =>
        messages[Len(messages)].content = CvErrorMarker

Speakers == members \cup {"supervisor", "user"}

\* C18 as stated (every Turn is attributed): every Turn of the history,
\* the seed Turn included, carries a speaker among the worker names and
\* the supervisor/user tags.
EveryTurnAttributed ==
    \A i \in 1..Len(messages) : messages[i].name \in Speakers

\* C18 amended: every Turn appended during the run carries the name of a
\* worker; the seed Turn is the only one without a name.
WorkerTurnsAttributed ==
    /\ messages[1].name = "None"
    /\ \A i \in 2..Len(messages) : messages[i].name \in members

SeedAndTwoWorkerTurns ==
    /\ Len(messages) = 3
    /\ messages[1].name = "None"

\* C19 (routing fidelity): the node scheduled after a decision naming a
\* worker is that worker's node, the adapter invoked next is that
\* worker's, and the Turn it appends carries that worker's name.
RoutingFidelity ==
    /\ []((status = "running" /\ node # "supervisor") =>
             (node \in members /\ node = LastDecision))
    /\ [][worker_calls' = worker_calls + 1 =>
            /\ last'.node = LastDecision
            /\ ~last'.raised =>
                  messages'[Len(messages')].name = LastDecision]_vars

GeneratorRouted ==
    /\ last.node = "Generator"
    /\ ~last.raised
    /\ LastDecision = "Generator"
    /\ messages[Len(messages)].name = "Generator"

\* C20 (absent decision is an error): after an oracle consultation whose
\* output has no `next`, the run is aborted.
AbsentDecisionAborts ==
    (last.node = "supervisor" /\ ~last.raised
        /\ "next" \notin DOMAIN last.out) =>
        status = "aborted"

\* the job ids a successful search of the call yields
CallJobIds == SelectSeq(call.search.value, HasUrn)

\* the call meets one of the failures: no client, failing search, or a
\* failing detail fetch for one of the ids found
CallFails ==
    \/ ~api
    \/ call.search.raised
    \/ \E i \in 1..Len(CallJobIds) : CallJobIds[i] \in call.failing

SessionIsolation ==
    \A s \in DOMAIN sessions :
        \A i \in 1..Len(sessions[s].messages) :
            sessions[s].messages[i].name = "Analyzer" =>
                sessions[s].messages[i].doc = s

\* C12 (strictly sequential loop): at most one node (the oracle or one
\* worker) is running at any instant, nothing is scheduled for the next
\* super-step while a node runs, and at most one LinkedIn call is
\* outstanding, made by the running Searcher.
StrictlySequential ==
    loop.on =>
        /\ Cardinality(loop.in_flight) <= 1
        /\ loop.in_flight # {} => loop.scheduled = {}
        /\ Cardinality(loop.api_calls) <= 1
        /\ loop.api_calls # {} => loop.in_flight = {"Searcher"}
        /\ loop.merged <= loop.steps

SecondFetchInFlight ==
    /\ loop.on
    /\ loop.in_flight = {"Searcher"}
    /\ loop.api_calls = {GetJobCall(2)}
    /\ loop.merged >= 1

\* a worker step has completed and nothing was executed since
WorkerCompleted == last.node \in members /\ ~last.raised

\* C21 (worker always reports back): once a worker step has completed the
\* supervisor is the scheduled node and the run is not finished; the
\* transition that follows is an oracle consultation (or the step-limit
\* abort when the budget is used up), never a worker invocation.
WorkerReportsBack ==
    /\ [](WorkerCompleted => (node = "supervisor" /\ status # "finished"))
    /\ [][WorkerCompleted =>
            /\ worker_calls' = worker_calls
            /\ \/ oracle_calls' = oracle_calls + 1
               \/ status' = "aborted" /\ reason' = StepLimitReason]_vars

OracleAfterSecondWorker ==
    /\ worker_calls = 2
    /\ oracle_calls = 3
    /\ last.node = "supervisor"
    /\ status = "running"

\* C22 (oracle first): as long as the oracle was not consulted no worker
\* was invoked, the history is the caller's seed Turn and a started run
\* awaits the supervisor; every worker invocation directly follows an
\* oracle consultation whose decision names that worker.
OracleFirst ==
    /\ [](oracle_calls = 0 =>
            /\ worker_calls = 0
            /\ messages = <<HumanMessage(Query, "None")>>
            /\ status = "running" => node = "supervisor")
    /\ [][worker_calls' # worker_calls =>
            /\ oracle_calls >= 1
            /\ last.node = "supervisor"
            /\ ~last.raised
            /\ LastDecision = last'.node]_vars

FirstWorkerAfterFirstDecision ==
    /\ oracle_calls = 1
    /\ worker_calls = 1
    /\ decisions = <<"Generator">>
    /\ last.node = "Generator"

\* C24 (full-history input): the input of every oracle consultation and
\* of every worker invocation is the whole ordered history of the run at
\* that moment, from the seed Turn to the latest worker Turn.
FullHistoryInput ==
    [][(oracle_calls' # oracle_calls \/ worker_calls' # worker_calls) =>
          /\ last'.input = messages
          /\ Len(last'.input) = 1 + Len(results)
          /\ last'.input[1] = HumanMessage(Query, "None")]_vars

WorkerReadThreeTurns ==
    /\ last.node \in members
    /\ Len(last.input) = 3
    /\ last.input[2].name \in members
    /\ last.input[3].name \in members

\* decisions read so far that name a worker
WorkerDecisions == {i \in 1..Len(decisions) : decisions[i] \in members}

CompletedWorkers ==
    worker_calls - (IF last.node \in members /\ last.raised THEN 1 ELSE 0)

\* C28 (oracle step frame): a supervisor step leaves messages and input
\* as they were, and at every point of a run the history holds the seed
\* Turn and one Turn per completed worker invocation.
OracleStepFrame ==
    /\ [][oracle_calls' # oracle_calls =>
            /\ messages' = messages
            /\ input' = input
            /\ results' = results]_vars
    /\ [](status \in {"running", "finished", "aborted"} =>
            Len(messages) = 1 + CompletedWorkers)

OracleConsultedOverThreeTurns ==
    /\ last.node = "supervisor"
    /\ oracle_calls = 3
    /\ Len(messages) = 3
    /\ next \in members

\* C26 (streaming and final result): the pieces handed to the presentation
\* layer are the worker Turns in history order, and a finished run returns
\* the full Turn sequence, seed Turn included, with a status flag.
StreamedAndReturned ==
    /\ results = StreamMessages(<<>>, Tail(messages))
    /\ status = "finished" =>
          /\ returned.set
          /\ returned.value = StreamMessages(<<>>, messages)
          /\ "status" \in DOMAIN returned

\* C23 (normalization is pure): after flatten_output returned, the dict
\* the caller passed in has the keys and values it had before the call.
FlattenPure ==
    (call.fn = "flatten_output" /\ call.times = 1) => call.data = call.arg

\* the dict has a wrapper: an 'args' key holding a dict
HasWrapper(d) == "args" \in DOMAIN d /\ d["args"].t = "dict"

\* C29 as stated (idempotent, no wrapper left): for every raw record a
\* second application changes nothing and one application leaves no
\* 'args' key holding a record.
FlattenIdempotent ==
    (call.fn = "flatten_output" /\ ret.done) =>
        /\ ~HasWrapper(ret.first)
        /\ call.times = 2 => ret.value = ret.first

\* C29 amended: flatten_output removes one level of wrapper; for every
\* record whose 'args' content has no wrapper of its own the result has
\* no wrapper and a second application changes nothing, and for a record
\* with a wrapper inside the wrapper the inner one is left at the top.
FlattenOneLevel ==
    (call.fn = "flatten_output" /\ ret.done) =>
        IF HasWrapper(call.arg) /\ HasWrapper(call.arg["args"].d)
        THEN /\ HasWrapper(ret.first)
             /\ ret.first["args"] = call.arg["args"].d["args"]
             /\ call.times = 2 => ~HasWrapper(ret.value)
        ELSE /\ ~HasWrapper(ret.first)
             /\ call.times = 2 => ret.value = ret.first

ToolCallFlattenedTwice ==
    /\ call.fn = "flatten_output"
    /\ call.times = 2
    /\ call.arg = ToolCall(Flat("Searcher"))
    /\ ret.value = Dict2("type", S("route"), "next", S("Searcher"))

\* C27 (backend configuration is total): for every name load_llm accepts,
\* define_graph returns a compiled graph.
BackendTotal ==
    (call.fn = "define_graph" /\ ret.done /\ load_llm(call.name) = "llm") =>
        (~ret.raised /\ ret.value = "compiled")

\* C30 (one record per listing id): fetch_all_jobs does not raise and
\* returns one record per id in the order of the ids: the details of the
\* id, or the placeholder when the client is None or the fetch of that id
\* fails; the ids after a failing one are still fetched.
OneRecordPerId ==
    (call.fn = "fetch_all_jobs" /\ ret.done) =>
        /\ ~ret.raised
        /\ Len(ret.value) = Len(call.job_ids)
        /\ \A i \in 1..Len(call.job_ids) :
              ret.value[i] =
                 IF ~api \/ call.job_ids[i] \in call.failing
                 THEN _get_empty_job_dict
                 ELSE JobDataDict(call.job_ids[i])

FetchedAfterFailure ==
    /\ call.fn = "fetch_all_jobs"
    /\ ret.done
    /\ api
    /\ Len(call.job_ids) = 2
    /\ call.job_ids[1] \in call.failing
    /\ call.job_ids[2] \notin call.failing
    /\ ret.value[1] = _get_empty_job_dict
    /\ ret.value[2] = JobDataDict(call.job_ids[2])

====
